---- MODULE Spec2Model ----
(***************************************************************************)
(* A model of the Hacker Stories application (src/unnamed/part_001, the    *)
(* TypeScript App with pagination, search history and sorting):            *)
(*   - storiesReducer, the state machine of the story list;                *)
(*   - getUrl / extractSearchTerm / getLastSearches, on strings modelled   *)
(*     as sequences of one-character strings;                              *)
(*   - the App component: the URL history, the fetch effect and the        *)
(*     handlers for submit, re-run, more and remove;                       *)
(*   - the List component: SORTS, handleSort and the sorted list.          *)
(* The specifications share the variables:                                 *)
(*   SpecReducer    dispatches arbitrary actions into storiesReducer;      *)
(*   SpecUnknown    adds actions of types the reducer does not know;       *)
(*   Spec           runs the App against a remote source;                  *)
(*   SpecResponses  runs it against a source that may answer malformed;    *)
(*   SpecExtract    applies getUrl and extractSearchTerm to terms;         *)
(*   SpecHistory    applies getLastSearches to URL histories;              *)
(*   SpecSort       runs the List component over loaded lists;             *)
(*   SpecLive       is the App with every request completing at some time; *)
(*   SpecJs         runs the App of the JavaScript variant.                *)
(***************************************************************************)
EXTENDS Integers, Sequences, FiniteSets, TLC

VARIABLES
    stories,     \* React.useReducer state: [data, page, isLoading, isError]
    urls,        \* React.useState: the URL history
    searchTerm,  \* useSemiPersistentState('search', '')
    mounted,     \* whether the first effect run (after mount) has happened
    cycles,      \* one entry per handleFetchStories call, in call order
    prev,        \* history: the reducer state before the last dispatch
    last,        \* history: the last action dispatched
    chain,       \* history: the payloads concatenated since the last page-0 success
    sort,        \* List's React.useState: [sortKey, isReverse]
    sortedList   \* the sortedList of List's last render

vars == <<stories, urls, searchTerm, mounted, cycles, prev, last, chain, sort, sortedList>>

(***************************************************************************)
(* Bounds of the model.                                                    *)
(***************************************************************************)
MaxItems == 3      \* longest story list explored by SpecReducer
MaxPage == 2       \* largest page index explored by SpecReducer
MaxUrls == 4       \* longest URL history explored by Spec
MaxPieces == 3     \* longest term, in pieces, explored by SpecExtract
MaxHistory == 7    \* longest URL history explored by SpecHistory
MaxClicks == 4     \* most clicks in a row on one column explored by SpecSort
MaxLiveUrls == 3   \* longest URL history explored by SpecLive

(***************************************************************************)
(* Strings: sequences of one-character strings, JavaScript's 0-based       *)
(* String methods written out.                                             *)
(***************************************************************************)
Min(a, b) == IF a < b THEN a ELSE b
Max(a, b) == IF a > b THEN a ELSE b

\* String.prototype.lastIndexOf(ch): the 0-based index of the last
\* occurrence, -1 when there is none.
RECURSIVE LastIndexFrom(_, _, _)
LastIndexFrom(s, ch, i) ==
    IF i = 0 THEN -1
    ELSE IF s[i] = ch THEN i - 1
    ELSE LastIndexFrom(s, ch, i - 1)

lastIndexOf(s, ch) == LastIndexFrom(s, ch, Len(s))

\* String.prototype.substring(start, end): both clamped to 0..length and
\* swapped when start > end; the characters start..end-1 (0-based).
substring(s, start, end) ==
    LET a == Max(0, Min(start, Len(s)))
        b == Max(0, Min(end, Len(s)))
        lo == Min(a, b)
        hi == Max(a, b)
    IN  SubSeq(s, lo + 1, hi)

\* The 1-based positions at which pat occurs in s.
Occurrences(s, pat) ==
    {i \in 1..(Len(s) - Len(pat) + 1) : SubSeq(s, i, i + Len(pat) - 1) = pat}

\* String.prototype.replace(pat, rep) with a string pattern: the first
\* occurrence only.
replace(s, pat, rep) ==
    LET occ == Occurrences(s, pat)
    IN  IF occ = {} THEN s
        ELSE LET i == CHOOSE k \in occ : \A j \in occ : k <= j
             IN  SubSeq(s, 1, i - 1) \o rep \o SubSeq(s, i + Len(pat), Len(s))

Digit(d) ==
    CASE d = 0 -> "0" [] d = 1 -> "1" [] d = 2 -> "2" [] d = 3 -> "3"
      [] d = 4 -> "4" [] d = 5 -> "5" [] d = 6 -> "6" [] d = 7 -> "7"
      [] d = 8 -> "8" [] d = 9 -> "9"

\* `${page}` in a template literal: the decimal digits of a natural.
RECURSIVE NumberToString(_)
NumberToString(n) ==
    IF n < 10 THEN <<Digit(n)>>
    ELSE NumberToString(n \div 10) \o <<Digit(n % 10)>>

(***************************************************************************)
(* Query URLs.                                                             *)
(***************************************************************************)
API_BASE == <<"h", "t", "t", "p", "s", ":", "/", "/", "h", "n", ".", "a", "l", "g", "o", "l", "i", "a", ".", "c", "o", "m", "/", "a", "p", "i", "/", "v", "1">>
API_SEARCH == <<"/", "s", "e", "a", "r", "c", "h">>
PARAM_SEARCH == <<"q", "u", "e", "r", "y", "=">>
PARAM_PAGE == <<"p", "a", "g", "e", "=">>

getUrl(term, page) ==
    API_BASE \o API_SEARCH \o <<"?">> \o PARAM_SEARCH \o term
        \o <<"&">> \o PARAM_PAGE \o NumberToString(page)

extractSearchTerm(url) ==
    replace(substring(url, lastIndexOf(url, "?") + 1, lastIndexOf(url, "&")),
            PARAM_SEARCH, <<>>)

\* The reduce callback of getLastSearches, for the url at 0-based position
\* index.
LastSearchesStep_DropsAnyRepeat(result, url, index) ==
    LET term == extractSearchTerm(url)
    IN  IF \E i \in 1..Len(result) : result[i] = term THEN result
        ELSE Append(result, term)

LastSearchesStep(result, url, index) ==
    LET term == extractSearchTerm(url)
    IN  IF index = 0 THEN Append(result, term)
        ELSE IF term = result[Len(result)] THEN result
        ELSE Append(result, term)

RECURSIVE LastSearchesReduce(_, _)
LastSearchesReduce(us, n) ==
    IF n = 0 THEN <<>>
    ELSE LastSearchesStep(LastSearchesReduce(us, n - 1), us[n], n - 1)

\* Array.prototype.slice(start, end) with JavaScript's negative indices.
slice(arr, start, end) ==
    LET n == Len(arr)
        a == IF start < 0 THEN Max(n + start, 0) ELSE Min(start, n)
        b == IF end < 0 THEN Max(n + end, 0) ELSE Min(end, n)
    IN  SubSeq(arr, a + 1, b)

getLastSearches(us) ==
    LET collapsed == LastSearchesReduce(us, Len(us))
        lastSix == slice(collapsed, -6, Len(collapsed))
    IN  slice(lastSix, 0, -1)

(***************************************************************************)
(* Stories and the reducer.                                                *)
(***************************************************************************)
\* A Story: objectID (a string in the source, only ever compared with !==,
\* here a natural), and the fields the list sorts by.  title and author
\* stand for strings by their rank in lexicographic order.
Story(id, title, author, comments, points) ==
    [objectID |-> id, title |-> title, author |-> author,
     num_comments |-> comments, points |-> points]

InitialStories ==
    [data |-> <<>>, page |-> 0, isLoading |-> FALSE, isError |-> FALSE]

FetchInit == [type |-> "STORIES_FETCH_INIT"]
FetchSuccess(list, page) ==
    [type |-> "STORIES_FETCH_SUCCESS", payload |-> [list |-> list, page |-> page]]
FetchFailure == [type |-> "STORIES_FETCH_FAILURE"]
RemoveStory(item) == [type |-> "REMOVE_STORY", payload |-> item]

\* What `throw new Error()` leaves in place of a state.
Thrown == [thrown |-> TRUE]

\* case 'STORIES_FETCH_INIT'
ReduceFetchInit_KeepsError(state) ==
    [state EXCEPT !.isLoading = TRUE]

ReduceFetchInit_ResetsPage(state) ==
    [state EXCEPT !.isLoading = TRUE, !.isError = FALSE, !.page = 0]

ReduceFetchInit(state) ==
    [state EXCEPT !.isLoading = TRUE, !.isError = FALSE]

\* case 'STORIES_FETCH_SUCCESS'
ReduceFetchSuccess_AlwaysConcat(state, payload) ==
    [state EXCEPT !.isLoading = FALSE,
                  !.isError = FALSE,
                  !.data = state.data \o payload.list,
                  !.page = payload.page]

ReduceFetchSuccess_Prepends(state, payload) ==
    [state EXCEPT !.isLoading = FALSE,
                  !.isError = FALSE,
                  !.data = IF payload.page = 0
                           THEN payload.list
                           ELSE payload.list \o state.data,
                  !.page = payload.page]

ReduceFetchSuccess(state, payload) ==
    [state EXCEPT !.isLoading = FALSE,
                  !.isError = FALSE,
                  !.data = IF payload.page = 0
                           THEN payload.list
                           ELSE state.data \o payload.list,
                  !.page = payload.page]

\* case 'STORIES_FETCH_FAILURE'
ReduceFetchFailure_ClearsData(state) ==
    [state EXCEPT !.isLoading = FALSE, !.isError = TRUE, !.data = <<>>]

ReduceFetchFailure_StaysLoading(state) ==
    [state EXCEPT !.isError = TRUE]

ReduceFetchFailure(state) ==
    [state EXCEPT !.isLoading = FALSE, !.isError = TRUE]

\* The 1-based position of the first element of s satisfying Test, 0 if none.
FirstIndex(s, Test(_)) ==
    LET hits == {i \in 1..Len(s) : Test(s[i])}
    IN  IF hits = {} THEN 0 ELSE CHOOSE i \in hits : \A j \in hits : i <= j

\* case 'REMOVE_STORY'
ReduceRemoveStory_FirstOnly(state, payload) ==
    LET i == FirstIndex(state.data, LAMBDA story : payload.objectID = story.objectID)
    IN  IF i = 0 THEN state
        ELSE [state EXCEPT !.data =
                SubSeq(state.data, 1, i - 1) \o SubSeq(state.data, i + 1, Len(state.data))]

ReduceRemoveStory(state, payload) ==
    [state EXCEPT !.data =
        SelectSeq(state.data, LAMBDA story : payload.objectID # story.objectID)]

storiesReducer_DefaultKeepsState(state, action) ==
    CASE action.type = "STORIES_FETCH_INIT" -> ReduceFetchInit(state)
      [] action.type = "STORIES_FETCH_SUCCESS" -> ReduceFetchSuccess(state, action.payload)
      [] action.type = "STORIES_FETCH_FAILURE" -> ReduceFetchFailure(state)
      [] action.type = "REMOVE_STORY" -> ReduceRemoveStory(state, action.payload)
      [] OTHER -> state

storiesReducer(state, action) ==
    CASE action.type = "STORIES_FETCH_INIT" -> ReduceFetchInit(state)
      [] action.type = "STORIES_FETCH_SUCCESS" -> ReduceFetchSuccess(state, action.payload)
      [] action.type = "STORIES_FETCH_FAILURE" -> ReduceFetchFailure(state)
      [] action.type = "REMOVE_STORY" -> ReduceRemoveStory(state, action.payload)
      [] OTHER -> Thrown

\* History of the payloads since the last page-0 success: their
\* concatenation in dispatch order, void once a REMOVE_STORY has intervened
\* or before any page-0 success.
NoChain == [valid |-> FALSE, list |-> <<>>]

ChainAfter(c, action) ==
    CASE action.type = "STORIES_FETCH_SUCCESS" ->
            IF action.payload.page = 0
            THEN [valid |-> TRUE, list |-> action.payload.list]
            ELSE [c EXCEPT !.list = IF c.valid THEN c.list \o action.payload.list ELSE <<>>]
      [] action.type = "REMOVE_STORY" -> NoChain
      [] OTHER -> c

\* dispatchStories(action): the reducer's result becomes the state.
Dispatch(action) ==
    stories' = storiesReducer(stories, action)

\* The history variables of SpecReducer after dispatching action.
Record(action) ==
    /\ prev' = stories
    /\ last' = action
    /\ chain' = ChainAfter(chain, action)

history == <<prev, last, chain>>

\* The List component: its sort state after construction and the list of
\* its first render, over the empty data.  SpecSort runs it; the other
\* specifications leave it as it is.
listVars == <<sort, sortedList>>

InitList ==
    /\ sort = [sortKey |-> "NONE", isReverse |-> FALSE]
    /\ sortedList = <<>>

(***************************************************************************)
(* SpecReducer: any sequence of the four actions, with any payload drawn   *)
(* from a small pool of stories in which two share an objectID.            *)
(***************************************************************************)
StoryA == Story(1, 1, 1, 0, 1)
StoryB == Story(2, 1, 2, 3, 1)
StoryC == Story(1, 2, 1, 3, 2)   \* the objectID of StoryA, other fields differ

StoryPool == { StoryA, StoryB, StoryC }

\* The payload lists: empty, single, in both orders, and with a record or
\* an objectID twice.
PoolLists ==
    { <<>>, <<StoryA>>, <<StoryB>>, <<StoryC>>,
      <<StoryA, StoryB>>, <<StoryB, StoryA>>, <<StoryB, StoryB>>, <<StoryA, StoryC>> }

NoAction == [type |-> "NONE"]

InitReducer ==
    /\ stories = InitialStories
    /\ urls = <<getUrl(<<>>, 0)>>
    /\ searchTerm = <<>>
    /\ mounted = FALSE
    /\ cycles = <<>>
    /\ prev = InitialStories
    /\ last = NoAction
    /\ chain = NoChain
    /\ InitList

appVars == <<urls, searchTerm, mounted, cycles, listVars>>

DispatchFetchInit ==
    /\ Dispatch(FetchInit)
    /\ Record(FetchInit)
    /\ UNCHANGED appVars

DispatchFetchSuccess ==
    \E list \in PoolLists, page \in 0..MaxPage :
        /\ Len(storiesReducer(stories, FetchSuccess(list, page)).data) <= MaxItems
        /\ Dispatch(FetchSuccess(list, page))
        /\ Record(FetchSuccess(list, page))
        /\ UNCHANGED appVars

DispatchFetchFailure ==
    /\ Dispatch(FetchFailure)
    /\ Record(FetchFailure)
    /\ UNCHANGED appVars

DispatchRemoveStory ==
    \E item \in StoryPool :
        /\ Dispatch(RemoveStory(item))
        /\ Record(RemoveStory(item))
        /\ UNCHANGED appVars

NextReducer ==
    \/ DispatchFetchInit
    \/ DispatchFetchSuccess
    \/ DispatchFetchFailure
    \/ DispatchRemoveStory

SpecReducer == InitReducer /\ [][NextReducer]_vars

(***************************************************************************)
(* SpecUnknown: SpecReducer's dispatches, and dispatches of actions whose  *)
(* type is none of the four.  The reducer runs while React renders, so     *)
(* what it throws unmounts the component: nothing is dispatched after.     *)
(***************************************************************************)
\* Actions of other types, with and without a payload; the first is the one
\* handleRemoveStory of src/unnamed/part_002 dispatches.
UnknownActions ==
    { [type |-> "REMOVE_STORIES", payload |-> StoryA],
      [type |-> "STORIES_FETCH_DONE"] }

DispatchKnown ==
    /\ stories # Thrown
    /\ NextReducer

DispatchUnknown ==
    /\ stories # Thrown
    /\ \E action \in UnknownActions :
            /\ Dispatch(action)
            /\ prev' = stories
            /\ last' = action
            /\ UNCHANGED <<chain, appVars>>

NextUnknown ==
    \/ DispatchKnown
    \/ DispatchUnknown

SpecUnknown == InitReducer /\ [][NextUnknown]_vars

(***************************************************************************)
(* The App component (Spec).                                               *)
(***************************************************************************)
\* What the user may type into the search field.
EmptyTerm == <<>>
Terms == { <<"a">>, <<"b">>, <<"?", "a">> }

\* The remote source (axios.get against the search API): it answers a URL
\* built from (term, page) with the records of that page, one per page; no
\* record is on two pages or under two terms.  objectIDs number the terms,
\* pages and records.
RemoteTerms == Terms \cup {EmptyTerm}
RemotePages == 0..MaxUrls

TermNo(t) ==
    CASE t = EmptyTerm -> 0 [] t = <<"a">> -> 1 [] t = <<"b">> -> 2 [] t = <<"?", "a">> -> 3

RemoteHits(term, page) ==
    LET n == TermNo(term)
    IN  <<Story(100 * n + 10 * page + 1, page, n, page, (n + page) % 2)>>

\* result.data of a fulfilled request, by URL.
RemoteCatalogue ==
    LET queries == RemoteTerms \X RemotePages
    IN  [url \in {getUrl(q[1], q[2]) : q \in queries} |->
            LET q == CHOOSE q \in queries : getUrl(q[1], q[2]) = url
            IN  [hits |-> RemoteHits(q[1], q[2]), page |-> q[2]]]

RemoteData(url) == RemoteCatalogue[url]

Init ==
    /\ stories = InitialStories
    /\ searchTerm \in Terms \cup {EmptyTerm}
    /\ urls = <<getUrl(searchTerm, 0)>>
    /\ mounted = FALSE
    /\ cycles = <<>>
    /\ prev = InitialStories
    /\ last = NoAction
    /\ chain = NoChain
    /\ InitList

\* handleFetchStories up to its await: dispatch FETCH_INIT, read the last
\* URL, call axios.get with it.  started lists the two calls in program
\* order; completed tells whether the request has been fulfilled or
\* rejected, and settled counts the dispatches the cycle made then.
FetchStart(us) ==
    [url |-> us[Len(us)], started |-> <<"INIT", "GET">>, completed |-> FALSE, settled |-> 0]

\* handleFetchStories after its await: the actions it dispatches, in order.
\* The try block's dispatch when the request was fulfilled, the catch
\* block's when it was rejected.
FetchSettle_FailureAfterSuccess(url, fulfilled) ==
    IF fulfilled
    THEN LET data == RemoteData(url)
         IN  <<FetchSuccess(data.hits, data.page), FetchFailure>>
    ELSE <<FetchFailure>>

FetchSettle(url, fulfilled) ==
    IF fulfilled
    THEN LET data == RemoteData(url)
         IN  <<FetchSuccess(data.hits, data.page)>>
    ELSE <<FetchFailure>>

\* The state after dispatching the actions of a sequence one after another.
RECURSIVE ReduceAll(_, _)
ReduceAll(state, actions) ==
    IF actions = <<>> THEN state
    ELSE ReduceAll(storiesReducer(state, Head(actions)), Tail(actions))

\* useEffect(..., [handleFetchStories]) with useCallback(..., [urls]): the
\* effect runs when urls is another array than at the last render.  Every
\* array the handlers set is longer than the one before, so comparing the
\* arrays' identities is comparing their values.
DepsChanged_LastUrlOnly(old, new) ==
    old[Len(old)] # new[Len(new)]

DepsChanged(old, new) ==
    old # new

\* The requests that have not completed.
Outstanding == {i \in 1..Len(cycles) : ~cycles[i].completed}

\* The effect's first run, after the component has mounted.
Mount ==
    /\ ~mounted
    /\ mounted' = TRUE
    /\ Dispatch(FetchInit)
    /\ cycles' = Append(cycles, FetchStart(urls))
    /\ UNCHANGED <<urls, searchTerm, history, listVars>>

\* handleSearch(term, page), and the effect run that the new urls causes.
HandleSearch_ReplacesLast(term, page) ==
    /\ Len(urls) < MaxUrls
    /\ urls' = IF Len(urls) > 1
               THEN SubSeq(urls, 1, Len(urls) - 1) \o <<getUrl(term, page)>>
               ELSE urls \o <<getUrl(term, page)>>
    /\ IF DepsChanged(urls, urls')
       THEN /\ Dispatch(FetchInit)
            /\ cycles' = Append(cycles, FetchStart(urls'))
       ELSE UNCHANGED <<stories, cycles>>

HandleSearch(term, page) ==
    /\ Len(urls) < MaxUrls
    /\ urls' = urls \o <<getUrl(term, page)>>
    /\ IF DepsChanged(urls, urls')
       THEN /\ Dispatch(FetchInit)
            /\ cycles' = Append(cycles, FetchStart(urls'))
       ELSE UNCHANGED <<stories, cycles>>

\* handleSearchInput and handleSearchSubmit: the user leaves term t in the
\* search field (typing it, or keeping what is there) and submits the form.
\* Typing touches searchTerm alone, which nothing but the submit reads, so
\* the two handlers are taken together.  The Submit button is disabled
\* while the field is empty.
HandleSearchSubmit ==
    /\ mounted
    /\ \E t \in Terms :
            /\ searchTerm' = t
            /\ t # EmptyTerm
            /\ HandleSearch(t, 0)
    /\ UNCHANGED <<mounted, history, listVars>>

\* handleLastSearch: one of the buttons LastSearches renders.
HandleLastSearch ==
    /\ mounted
    /\ Len(urls) < MaxUrls
    /\ LET lastSearches == getLastSearches(urls)
       IN  \E i \in 1..Len(lastSearches) :
               /\ searchTerm' = lastSearches[i]
               /\ HandleSearch(lastSearches[i], 0)
    /\ UNCHANGED <<mounted, history, listVars>>

\* handleMore; the More button is rendered only while isLoading is false.
HandleMore ==
    /\ mounted
    /\ ~stories.isLoading
    /\ HandleSearch(extractSearchTerm(urls[Len(urls)]), stories.page + 1)
    /\ UNCHANGED <<searchTerm, mounted, history, listVars>>

\* handleRemoveStory: the button of one of the items List renders.
HandleRemoveStory ==
    /\ mounted
    /\ \E i \in 1..Len(stories.data) : Dispatch(RemoveStory(stories.data[i]))
    /\ UNCHANGED <<urls, searchTerm, mounted, cycles, history, listVars>>

\* An outstanding request completes and the rest of handleFetchStories runs.
Settle_DropsStale(i, fulfilled) ==
    LET actions == IF i = Len(cycles) THEN FetchSettle(cycles[i].url, fulfilled) ELSE <<>>
    IN  /\ stories' = ReduceAll(stories, actions)
        /\ cycles' = [cycles EXCEPT ![i].completed = TRUE,
                                    ![i].settled = 1]
        /\ UNCHANGED <<urls, searchTerm, mounted, history, listVars>>

Settle(i, fulfilled) ==
    LET actions == FetchSettle(cycles[i].url, fulfilled)
    IN  /\ stories' = ReduceAll(stories, actions)
        /\ cycles' = [cycles EXCEPT ![i].completed = TRUE,
                                    ![i].settled = Len(actions)]
        /\ UNCHANGED <<urls, searchTerm, mounted, history, listVars>>

\* An outstanding request is fulfilled with the remote source's data.
FetchFulfilled ==
    \E i \in Outstanding : Settle(i, TRUE)

\* An outstanding request is rejected.
FetchRejected ==
    \E i \in Outstanding : Settle(i, FALSE)

Next ==
    \/ Mount
    \/ HandleSearchSubmit
    \/ HandleLastSearch
    \/ HandleMore
    \/ HandleRemoveStory
    \/ FetchFulfilled
    \/ FetchRejected

Spec == Init /\ [][Next]_vars

\* The App when every request that has been started completes at some
\* time: request i does not stay outstanding for ever.
SettleRequest(i) ==
    /\ i \in Outstanding
    /\ Settle(i, TRUE) \/ Settle(i, FALSE)

\* The handlers that append a URL, over histories of up to MaxLiveUrls.
SearchLive ==
    /\ Len(urls) < MaxLiveUrls
    /\ HandleSearchSubmit \/ HandleLastSearch \/ HandleMore

NextLive ==
    \/ Mount
    \/ SearchLive
    \/ HandleRemoveStory
    \/ FetchFulfilled
    \/ FetchRejected

SpecLive ==
    /\ Init
    /\ [][NextLive]_vars
    /\ \A i \in 1..MaxLiveUrls : WF_vars(SettleRequest(i))

(***************************************************************************)
(* The App against a remote source whose answers need not have the shape   *)
(* the code expects (SpecResponses).  A property that JavaScript reads as  *)
(* undefined is a field the record does not have.                          *)
(***************************************************************************)
\* What axios.get(url) may settle with: a rejection, the source's data, a
\* body without hits, and no body at all.
Responses(url) ==
    LET data == RemoteData(url)
    IN  { [fulfilled |-> FALSE],
          [fulfilled |-> TRUE, data |-> data],
          [fulfilled |-> TRUE, data |-> [page |-> data.page]],
          [fulfilled |-> TRUE] }

\* handleFetchStories after its await, for any result: the await throws on
\* a rejection and reading result.data.hits throws when result.data is
\* undefined, both inside the try block; otherwise FETCH_SUCCESS is
\* dispatched with whatever result.data.hits and result.data.page are.
FetchSettleResponse(result) ==
    IF ~result.fulfilled \/ "data" \notin DOMAIN result
    THEN <<FetchFailure>>
    ELSE IF "hits" \in DOMAIN result.data
         THEN <<FetchSuccess(result.data.hits, result.data.page)>>
         ELSE <<[type |-> "STORIES_FETCH_SUCCESS",
                 payload |-> [page |-> result.data.page]]>>

\* An undefined entry of an array.
UndefinedItem == [undefined |-> TRUE]

\* case 'STORIES_FETCH_SUCCESS' when payload.list is undefined: with page 0
\* data becomes undefined, otherwise state.data.concat(undefined) appends
\* one undefined entry.
ReduceFetchSuccessNoList(state, payload) ==
    IF payload.page = 0
    THEN [page |-> 0, isLoading |-> FALSE, isError |-> FALSE]
    ELSE [state EXCEPT !.isLoading = FALSE,
                       !.isError = FALSE,
                       !.data = state.data \o <<UndefinedItem>>,
                       !.page = payload.page]

\* storiesReducer on the actions handleFetchStories can dispatch at run
\* time, the payload's list being undefined included.
storiesReducerUntyped(state, action) ==
    IF action.type = "STORIES_FETCH_SUCCESS" /\ "list" \notin DOMAIN action.payload
    THEN ReduceFetchSuccessNoList(state, action.payload)
    ELSE storiesReducer(state, action)

RECURSIVE ReduceAllUntyped(_, _)
ReduceAllUntyped(state, actions) ==
    IF actions = <<>> THEN state
    ELSE ReduceAllUntyped(storiesReducerUntyped(state, Head(actions)), Tail(actions))

\* App's render reads stories.data.reduce in getSumComments and
\* item.objectID in List: it throws when data or one of its entries is
\* undefined, and React then unmounts the component tree.
Renders(state) ==
    /\ "data" \in DOMAIN state
    /\ \A i \in 1..Len(state.data) : state.data[i] # UndefinedItem

MountRendered == Renders(stories) /\ Mount

SubmitRendered == Renders(stories) /\ HandleSearchSubmit

MoreRendered == Renders(stories) /\ HandleMore

\* An outstanding request settles with one of the responses and the rest of
\* handleFetchStories runs; last is the action it dispatched.
SettleResponse ==
    /\ Renders(stories)
    /\ \E i \in Outstanding : \E result \in Responses(cycles[i].url) :
            LET actions == FetchSettleResponse(result)
            IN  /\ stories' = ReduceAllUntyped(stories, actions)
                /\ cycles' = [cycles EXCEPT ![i].completed = TRUE,
                                            ![i].settled = Len(actions)]
                /\ last' = actions[Len(actions)]
                /\ UNCHANGED <<urls, searchTerm, mounted, prev, chain, listVars>>

NextResponses ==
    \/ MountRendered
    \/ SubmitRendered
    \/ MoreRendered
    \/ SettleResponse

SpecResponses == Init /\ [][NextResponses]_vars

(***************************************************************************)
(* SpecJs: the App of src/unnamed/part_002, the JavaScript variant with a  *)
(* single url, no pages and no search history.  urls holds its url state   *)
(* as a one-entry history; last is the action dispatched last.             *)
(***************************************************************************)
\* `${API_ENDPOINT}${searchTerm}`
API_ENDPOINT == API_BASE \o API_SEARCH \o <<"?">> \o PARAM_SEARCH

getUrlJs(term) == API_ENDPOINT \o term

\* result.data.hits of a fulfilled request, by URL: the remote source's
\* first page for the term.
RemoteCatalogueJs ==
    [url \in {getUrlJs(t) : t \in RemoteTerms} |->
        RemoteHits(CHOOSE t \in RemoteTerms : getUrlJs(t) = url, 0)]

InitialStoriesJs == [data |-> <<>>, isLoading |-> FALSE, isError |-> FALSE]

\* case 'STORIES_FETCH_SUCCESS' of the variant: the payload is the list.
ReduceFetchSuccessJs(state, payload) ==
    [state EXCEPT !.isLoading = FALSE, !.isError = FALSE, !.data = payload]

\* The variant's reducer; its other three cases read as in part_001.
storiesReducerJs(state, action) ==
    CASE action.type = "STORIES_FETCH_INIT" -> ReduceFetchInit(state)
      [] action.type = "STORIES_FETCH_SUCCESS" -> ReduceFetchSuccessJs(state, action.payload)
      [] action.type = "STORIES_FETCH_FAILURE" -> ReduceFetchFailure(state)
      [] action.type = "REMOVE_STORY" -> ReduceRemoveStory(state, action.payload)
      [] OTHER -> Thrown

\* dispatchStories(action) of the variant.
DispatchJs(action) ==
    /\ stories' = storiesReducerJs(stories, action)
    /\ last' = action

InitJs ==
    /\ stories = InitialStoriesJs
    /\ searchTerm \in Terms \cup {EmptyTerm}
    /\ urls = <<getUrlJs(searchTerm)>>
    /\ mounted = FALSE
    /\ cycles = <<>>
    /\ prev = InitialStoriesJs
    /\ last = NoAction
    /\ chain = NoChain
    /\ InitList

\* handleFetchStories up to the request, with the searchTerm of the render
\* that made the callback: nothing happens when that term is empty.
HandleFetchStoriesJs(term, url) ==
    IF term = EmptyTerm
    THEN UNCHANGED <<stories, cycles, last>>
    ELSE /\ DispatchJs(FetchInit)
         /\ cycles' = Append(cycles, FetchStart(<<url>>))

\* The effect's first run, after the component has mounted.
MountJs ==
    /\ ~mounted
    /\ mounted' = TRUE
    /\ HandleFetchStoriesJs(searchTerm, urls[1])
    /\ UNCHANGED <<urls, searchTerm, prev, chain, listVars>>

\* handleSearchInput and handleSearchSubmit: the user leaves term t in the
\* field and submits; the effect runs again when the url is another string.
HandleSearchSubmitJs ==
    /\ mounted
    /\ stories # Thrown
    /\ Len(cycles) < MaxUrls
    /\ \E t \in Terms :
            /\ searchTerm' = t
            /\ urls' = <<getUrlJs(t)>>
            /\ IF urls' # urls
               THEN HandleFetchStoriesJs(t, getUrlJs(t))
               ELSE UNCHANGED <<stories, cycles, last>>
    /\ UNCHANGED <<mounted, prev, chain, listVars>>

\* handleRemoveStory of the variant: the button of one of the items.
HandleRemoveStoryJs ==
    /\ mounted
    /\ stories # Thrown
    /\ \E i \in 1..Len(stories.data) :
            DispatchJs([type |-> "REMOVE_STORIES", payload |-> stories.data[i]])
    /\ UNCHANGED <<urls, searchTerm, mounted, cycles, prev, chain, listVars>>

\* An outstanding request completes: the then callback dispatches
\* STORIES_FETCH_SUCCESS with result.data.hits, the catch callback
\* STORIES_FETCH_FAILURE.
SettleJs(i, fulfilled) ==
    /\ stories # Thrown
    /\ DispatchJs(IF fulfilled
                  THEN [type |-> "STORIES_FETCH_SUCCESS",
                        payload |-> RemoteCatalogueJs[cycles[i].url]]
                  ELSE FetchFailure)
    /\ cycles' = [cycles EXCEPT ![i].completed = TRUE, ![i].settled = 1]
    /\ UNCHANGED <<urls, searchTerm, mounted, prev, chain, listVars>>

FetchFulfilledJs ==
    \E i \in Outstanding : SettleJs(i, TRUE)

FetchRejectedJs ==
    \E i \in Outstanding : SettleJs(i, FALSE)

NextJs ==
    \/ MountJs
    \/ HandleSearchSubmitJs
    \/ HandleRemoveStoryJs
    \/ FetchFulfilledJs
    \/ FetchRejectedJs

SpecJs == InitJs /\ [][NextJs]_vars

(***************************************************************************)
(* SpecExtract: getUrl applied to a term and a page, extractSearchTerm     *)
(* applied to the URL it returned.                                         *)
(***************************************************************************)
\* The terms: up to MaxPieces pieces, each a letter, one of the two
\* delimiters of the URL, or the text of the search parameter.
Pieces == { <<"a">>, <<"?">>, <<"&">>, PARAM_SEARCH }

RECURSIVE TermsOf(_)
TermsOf(n) ==
    IF n = 0 THEN { <<>> }
    ELSE LET shorter == TermsOf(n - 1)
         IN  shorter \cup { t \o piece : t \in shorter, piece \in Pieces }

ExtractTerms == TermsOf(MaxPieces)

InitExtract ==
    /\ searchTerm \in ExtractTerms
    /\ urls = <<>>
    /\ last = NoAction
    /\ stories = InitialStories
    /\ mounted = FALSE
    /\ cycles = <<>>
    /\ prev = InitialStories
    /\ chain = NoChain
    /\ InitList

\* const url = getUrl(searchTerm, page)
CallGetUrl ==
    /\ urls = <<>>
    /\ \E page \in 0..MaxPage : urls' = <<getUrl(searchTerm, page)>>
    /\ UNCHANGED <<stories, searchTerm, mounted, cycles, history, listVars>>

\* extractSearchTerm(url); last holds what it returned.
CallExtractSearchTerm ==
    /\ urls # <<>>
    /\ last = NoAction
    /\ last' = [type |-> "extractSearchTerm", term |-> extractSearchTerm(urls[1])]
    /\ UNCHANGED <<stories, urls, searchTerm, mounted, cycles, prev, chain, listVars>>

NextExtract ==
    \/ CallGetUrl
    \/ CallExtractSearchTerm

SpecExtract == InitExtract /\ [][NextExtract]_vars

(***************************************************************************)
(* SpecHistory: getLastSearches applied to a URL history built from        *)
(* getUrl, URL by URL.                                                     *)
(***************************************************************************)
\* The (term, page) pairs of the URLs: two terms, one of them at two pages.
HistoryQueries == { <<(<<"a">>), 0>>, <<(<<"a">>), 1>>, <<(<<"b">>), 0>> }

InitHistory ==
    /\ urls = <<>>
    /\ last = NoAction
    /\ searchTerm = <<>>
    /\ stories = InitialStories
    /\ mounted = FALSE
    /\ cycles = <<>>
    /\ prev = InitialStories
    /\ chain = NoChain
    /\ InitList

\* urls.concat(getUrl(term, page))
AppendUrl ==
    /\ last = NoAction
    /\ Len(urls) < MaxHistory
    /\ \E q \in HistoryQueries : urls' = urls \o <<getUrl(q[1], q[2])>>
    /\ UNCHANGED <<stories, searchTerm, mounted, cycles, history, listVars>>

\* getLastSearches(urls); last holds what it returned.
CallGetLastSearches ==
    /\ last = NoAction
    /\ last' = [type |-> "getLastSearches", terms |-> getLastSearches(urls)]
    /\ UNCHANGED <<stories, urls, searchTerm, mounted, cycles, prev, chain, listVars>>

NextHistory ==
    \/ AppendUrl
    \/ CallGetLastSearches

SpecHistory == InitHistory /\ [][NextHistory]_vars

(***************************************************************************)
(* The List component (SpecSort): SORTS, handleSort and the sortedList of  *)
(* its render, over lists of distinct stories that tie in every field.     *)
(***************************************************************************)
\* Array.prototype.reverse(): the entries in reverse order.
reverse(list) == [i \in 1..Len(list) |-> list[Len(list) + 1 - i]]

\* lodash sortBy(list, field): ascending by the field, entries of equal
\* value in the order they have in list.  Computed by inserting each entry
\* behind the entries that are not greater.
InsertBehind(sorted, x, field) ==
    LET n == Cardinality({i \in 1..Len(sorted) : sorted[i][field] <= x[field]})
    IN  SubSeq(sorted, 1, n) \o <<x>> \o SubSeq(sorted, n + 1, Len(sorted))

RECURSIVE sortBy(_, _)
sortBy(list, field) ==
    IF list = <<>> THEN <<>>
    ELSE InsertBehind(sortBy(SubSeq(list, 1, Len(list) - 1), field),
                      list[Len(list)], field)

SortKeys == { "NONE", "TITLE", "AUTHOR", "COMMENT", "POINT" }

SORTS_CommentAscending(sortKey, list) ==
    CASE sortKey = "NONE" -> list
      [] sortKey = "TITLE" -> sortBy(list, "title")
      [] sortKey = "AUTHOR" -> sortBy(list, "author")
      [] sortKey = "COMMENT" -> sortBy(list, "num_comments")
      [] sortKey = "POINT" -> reverse(sortBy(list, "points"))

SORTS(sortKey, list) ==
    CASE sortKey = "NONE" -> list
      [] sortKey = "TITLE" -> sortBy(list, "title")
      [] sortKey = "AUTHOR" -> sortBy(list, "author")
      [] sortKey = "COMMENT" -> reverse(sortBy(list, "num_comments"))
      [] sortKey = "POINT" -> reverse(sortBy(list, "points"))

\* const sortedList = sort.isReverse ? sortFunction(list).reverse()
\*                                   : sortFunction(list)
SortedList(list, sortKey, isReverse) ==
    IF isReverse THEN reverse(SORTS(sortKey, list)) ELSE SORTS(sortKey, list)

\* reverse() works in place on the array it is called on: that is the list
\* prop itself, stories.data, when the sort function is SORTS.NONE.
DataAfterRender_SortsInPlace(list, sortKey, isReverse) ==
    IF isReverse THEN reverse(list) ELSE list

DataAfterRender(list, sortKey, isReverse) ==
    IF sortKey = "NONE" /\ isReverse THEN reverse(list) ELSE list

\* The stories the lists are made of.  Each field has a value that two of
\* them share.
SortStory1 == Story(1, 1, 2, 0, 5)
SortStory2 == Story(2, 1, 1, 3, 5)
SortStory3 == Story(3, 2, 2, 3, 1)
SortStory4 == Story(4, 3, 3, 0, 2)

SortPool == { SortStory1, SortStory2, SortStory3, SortStory4 }

\* The lists that hold each story of a set once, in any order.
RECURSIVE ListsOf(_)
ListsOf(set) ==
    IF set = {} THEN { <<>> }
    ELSE UNION { { <<x>> \o rest : rest \in ListsOf(set \ {x}) } : x \in set }

SortLists == UNION { ListsOf(set) : set \in SUBSET SortPool }

\* List is rendered with list = stories.data, a list that has been loaded.
InitSort ==
    /\ \E list \in SortLists :
            /\ stories = [InitialStories EXCEPT !.data = list]
            /\ sortedList = SortedList(list, "NONE", FALSE)
    /\ sort = [sortKey |-> "NONE", isReverse |-> FALSE]
    /\ urls = <<getUrl(<<>>, 0)>>
    /\ searchTerm = <<>>
    /\ mounted = TRUE
    /\ cycles = <<>>
    /\ prev = InitialStories
    /\ last = NoAction
    /\ chain = NoChain

\* The sort state that handleSort(sortKey) sets.
SortAfterClick_FlipsAlways(s, sortKey) ==
    [sortKey |-> sortKey, isReverse |-> ~s.isReverse]

SortAfterClick(s, sortKey) ==
    [sortKey |-> sortKey, isReverse |-> s.sortKey = sortKey /\ ~s.isReverse]

\* The clicks on the column buttons: last holds the key of the last click
\* and the number of clicks on it since the last click on another key.
ClickRun(sortKey) ==
    IF last.type = "handleSort" /\ last.sortKey = sortKey THEN last.run + 1 ELSE 1

\* handleSort(sortKey), from the button of one of the four columns, and
\* the render that setSort causes.
HandleSort ==
    \E sortKey \in SortKeys \ {"NONE"} :
        LET isReverse == SortAfterClick(sort, sortKey).isReverse
        IN  /\ ClickRun(sortKey) <= MaxClicks
            /\ sort' = SortAfterClick(sort, sortKey)
            /\ sortedList' = SortedList(stories.data, sortKey, isReverse)
            /\ stories' = [stories EXCEPT
                               !.data = DataAfterRender(@, sortKey, isReverse)]
            /\ last' = [type |-> "handleSort", sortKey |-> sortKey,
                        run |-> ClickRun(sortKey)]
            /\ UNCHANGED <<urls, searchTerm, mounted, cycles, prev, chain>>

\* onRemoveItem(item), from the button of one of the rows, and the render
\* that the new list causes.
HandleRemoveItem ==
    \E i \in 1..Len(sortedList) :
        /\ Dispatch(RemoveStory(sortedList[i]))
        /\ sortedList' = SortedList(stories'.data, sort.sortKey, sort.isReverse)
        /\ UNCHANGED <<sort, urls, searchTerm, mounted, cycles, history>>

NextSort ==
    \/ HandleSort
    \/ HandleRemoveItem

SpecSort == InitSort /\ [][NextSort]_vars

(***************************************************************************)
(* Claims about storiesReducer, checked under SpecReducer (C17 under       *)
(* SpecUnknown).                                                           *)
(***************************************************************************)
IsSuccess(action) == action.type = "STORIES_FETCH_SUCCESS"

\* C1: after a FETCH_SUCCESS carrying page 0, whatever the state before it
\* (so also after a run of such actions), items is exactly the list of that
\* last action, and isLoading and isError are both false.
C1_PageZeroReplaces ==
    (IsSuccess(last) /\ last.payload.page = 0) =>
        /\ stories.data = last.payload.list
        /\ stories.isLoading = FALSE
        /\ stories.isError = FALSE

\* Two page-0 successes in a row over a non-empty list: the second list
\* stands alone.
C1_Witness ==
    /\ IsSuccess(last) /\ last.payload.page = 0
    /\ prev.data # <<>> /\ prev.page = 0 /\ ~prev.isLoading /\ ~prev.isError
    /\ last.payload.list # <<>>
    /\ last.payload.list # prev.data

\* C2: a FETCH_SUCCESS with page > 0 sets items to the previous items
\* followed by the payload list, entry for entry, and currentPage to the
\* payload page; and as long as only fetch actions follow a page-0 success,
\* items is the concatenation of the payload lists in dispatch order.
C2_PageAppends ==
    /\ (IsSuccess(last) /\ last.payload.page > 0) =>
            /\ Len(stories.data) = Len(prev.data) + Len(last.payload.list)
            /\ \A i \in 1..Len(prev.data) : stories.data[i] = prev.data[i]
            /\ \A i \in 1..Len(last.payload.list) :
                    stories.data[Len(prev.data) + i] = last.payload.list[i]
            /\ stories.page = last.payload.page
    /\ chain.valid => stories.data = chain.list

\* [A, B] at page 0, then [C] at page 1, where C has the objectID of A:
\* items is [A, B, C] at page 1, nothing deduplicated.
C2_Witness ==
    /\ IsSuccess(last) /\ last.payload.page = 1
    /\ chain.valid
    /\ prev.page = 0
    /\ prev.data = <<StoryA, StoryB>>
    /\ last.payload.list = <<StoryC>>
    /\ stories.data = <<StoryA, StoryB, StoryC>>
    /\ stories.page = 1

\* C3: FETCH_FAILURE yields isLoading = false and isError = true and leaves
\* items and currentPage as they were.
C3_FailureKeepsItems ==
    last.type = "STORIES_FETCH_FAILURE" =>
        /\ stories.isLoading = FALSE
        /\ stories.isError = TRUE
        /\ stories.data = prev.data
        /\ stories.page = prev.page

\* A failure that ends a loading cycle begun over a non-empty list.
C3_Witness ==
    /\ last.type = "STORIES_FETCH_FAILURE"
    /\ prev.isLoading
    /\ prev.data # <<>>
    /\ prev.page > 0

\* C4: FETCH_INIT yields isLoading = true and isError = false and leaves
\* items and currentPage unchanged; from the initial state it gives
\* {items: [], page: 0, isLoading: true, isError: false}.
C4_InitFrame ==
    last.type = "STORIES_FETCH_INIT" =>
        /\ stories.isLoading = TRUE
        /\ stories.isError = FALSE
        /\ stories.data = prev.data
        /\ stories.page = prev.page
        /\ prev = InitialStories =>
                stories = [data |-> <<>>, page |-> 0,
                           isLoading |-> TRUE, isError |-> FALSE]

\* FETCH_INIT over a failed state holding items at a later page.
C4_Witness ==
    /\ last.type = "STORIES_FETCH_INIT"
    /\ prev.isError
    /\ prev.data # <<>>
    /\ prev.page > 0

\* C6: REMOVE_ITEM is idempotent: in every state, for every record,
\* applying REMOVE_STORY twice gives the state that applying it once gives.
C6_RemoveIdempotent ==
    \A item \in StoryPool :
        LET once == storiesReducer(stories, RemoveStory(item))
        IN  storiesReducer(once, RemoveStory(item)) = once

\* A removal that changed nothing: the list is not empty and holds no
\* entry with the record's objectID.
HasId(list, id) == \E i \in 1..Len(list) : list[i].objectID = id

C6_Witness ==
    /\ last.type = "REMOVE_STORY"
    /\ prev = stories
    /\ stories.data # <<>>
    /\ ~HasId(stories.data, last.payload.objectID)

\* C7: isLoading and isError are never both true.
C7_NotLoadingAndError ==
    ~(stories.isLoading /\ stories.isError)

\* FETCH_INIT dispatched over a failed state: the error flag had to go.
C7_Witness ==
    /\ last.type = "STORIES_FETCH_INIT"
    /\ prev.isError
    /\ stories.isLoading

\* C17: unrecognised actions are fatal: storiesReducer applied to an action
\* whose type is none of the four raises an error and returns no state, in
\* every state; it never returns the state it was given.
C17_UnknownActionThrows ==
    /\ \A action \in UnknownActions :
            /\ storiesReducer(stories, action) = Thrown
            /\ storiesReducer(stories, action) # stories \/ stories = Thrown
    /\ (\E action \in UnknownActions : last = action) =>
            (stories = Thrown /\ stories # prev)

\* An unrecognised action dispatched over a loaded, non-empty list.
C17_Witness ==
    /\ last.type = "REMOVE_STORIES"
    /\ stories = Thrown
    /\ prev.data # <<>>
    /\ ~prev.isLoading

(***************************************************************************)
(* Claims about the App, checked under Spec.                               *)
(***************************************************************************)
RemoveAt(list, i) == SubSeq(list, 1, i - 1) \o SubSeq(list, i + 1, Len(list))

\* C5: REMOVE_ITEM(record) removes the single entry of items that has the
\* record's objectID, keeps the other entries in their order and leaves
\* currentPage, isLoading and isError as they were: every click on an
\* item's remove button takes exactly one entry out of items.
C5_RemovesSingleEntry ==
    [][HandleRemoveStory =>
        /\ \E i \in 1..Len(stories.data) : stories'.data = RemoveAt(stories.data, i)
        /\ stories'.page = stories.page
        /\ stories'.isLoading = stories.isLoading
        /\ stories'.isError = stories.isError]_vars

\* C8: no two records of items share an objectID.
C8_UniqueIds ==
    \A i, j \in 1..Len(stories.data) :
        i # j => stories.data[i].objectID # stories.data[j].objectID

\* C9: every fetch cycle dispatches FETCH_INIT before it calls the fetch
\* capability, calls it with the URL that is last in the history when the
\* cycle starts, and on completion dispatches exactly one action, either the
\* FETCH_SUCCESS carrying the response or FETCH_FAILURE.
C9_Cycles ==
    \A i \in 1..Len(cycles) :
        /\ cycles[i].started = <<"INIT", "GET">>
        /\ cycles[i].url = urls[i]
        /\ cycles[i].settled = IF cycles[i].completed THEN 1 ELSE 0

C9_Starts ==
    Len(cycles') # Len(cycles) =>
        /\ Len(cycles') = Len(cycles) + 1
        /\ cycles'[Len(cycles')].url = urls'[Len(urls')]
        /\ stories' = storiesReducer(stories, FetchInit)

C9_Completes ==
    \A i \in 1..Len(cycles) :
        (~cycles[i].completed /\ cycles'[i].completed) =>
            \/ stories' = storiesReducer(stories,
                    FetchSuccess(RemoteData(cycles[i].url).hits,
                                 RemoteData(cycles[i].url).page))
            \/ stories' = storiesReducer(stories, FetchFailure)

C9_FetchCycle ==
    /\ []C9_Cycles
    /\ [][C9_Starts]_vars
    /\ [][C9_Completes]_vars

\* Three cycles have run to completion, the last one rejected, an earlier
\* one fulfilled.
C9_Witness ==
    /\ Len(cycles) >= 3
    /\ \A i \in 1..Len(cycles) : cycles[i].completed /\ cycles[i].settled = 1
    /\ stories.isError
    /\ stories.data # <<>>

\* C10: one fetch cycle is started by the mount and one by every append to
\* the URL history, also when the appended URL equals the one before it,
\* and none by anything else: the cycles are as many as the URLs, so none is
\* started after a FETCH_FAILURE unless a URL is appended.
C10_OneCyclePerAppend ==
    /\ mounted => Len(cycles) = Len(urls)
    /\ ~mounted => (cycles = <<>> /\ Len(urls) = 1)

\* The last URL repeats the one before it, its cycle has failed, and no
\* request is outstanding.
C10_Witness ==
    /\ Len(urls) >= 2
    /\ urls[Len(urls)] = urls[Len(urls) - 1]
    /\ Len(cycles) = Len(urls)
    /\ Outstanding = {}
    /\ stories.isError

\* C12: fetch completions are not serialised.  A request that is fulfilled
\* after a request issued later has already completed writes its response
\* into the state all the same: items becomes that response's list (page
\* 0) or grows by it (later pages), and currentPage its page.  So a state is
\* reachable in which nothing is outstanding and items holds the response
\* of a URL that is not the last of the history (C12_Witness).
C12_StaleCompletionWrites ==
    [][\A i \in 1..Len(cycles) :
        ( /\ ~cycles[i].completed
          /\ cycles'[i].completed
          /\ \E j \in (i + 1)..Len(cycles) : cycles[j].completed
          /\ ~stories'.isError ) =>
            LET data == RemoteData(cycles[i].url)
            IN  /\ stories'.data = IF data.page = 0 THEN data.hits
                                   ELSE stories.data \o data.hits
                /\ stories'.page = data.page
                /\ ~stories'.isLoading]_vars

\* Every request has completed, without error; items is the page-0 response
\* of an earlier URL of the history that no later URL repeats, and not the
\* response of the last URL: the earlier request was fulfilled last.
C12_Witness ==
    /\ Len(urls) >= 2
    /\ Len(cycles) = Len(urls)
    /\ Outstanding = {}
    /\ ~stories.isError
    /\ \E k \in 1..(Len(urls) - 1) :
            /\ \A j \in (k + 1)..Len(urls) : urls[j] # urls[k]
            /\ RemoteData(urls[k]).page = 0
            /\ stories.data = RemoteData(urls[k]).hits
            /\ stories.data # RemoteData(urls[Len(urls)]).hits

\* C13: more() appends the URL built from the term extracted from the last
\* URL and the page currentPage + 1; so, the last URL being the URL of a
\* term t at the current page, more() appends the URL of t at the next
\* page: a search for t at page 0 and more() twice give three URLs of term t
\* with pages 0, 1, 2.
C13_MoreKeepsTerm ==
    [][HandleMore =>
        /\ urls' = urls \o <<getUrl(extractSearchTerm(urls[Len(urls)]), stories.page + 1)>>
        /\ \A t \in RemoteTerms :
                urls[Len(urls)] = getUrl(t, stories.page) =>
                    urls'[Len(urls')] = getUrl(t, stories.page + 1)]_vars

\* C14: the URL history is append-only.  Submitting a search, re-running a
\* past term and more() each append exactly one URL at the end, with page 0
\* and the chosen term for the first two; no step removes, reorders or
\* changes an entry already in the history.
C14_AppendOnly ==
    [][/\ \/ urls' = urls
          \/ /\ Len(urls') = Len(urls) + 1
             /\ SubSeq(urls', 1, Len(urls)) = urls
       /\ (HandleSearchSubmit \/ HandleLastSearch \/ HandleMore) =>
                Len(urls') = Len(urls) + 1
       /\ (HandleSearchSubmit \/ HandleLastSearch) =>
                urls'[Len(urls')] = getUrl(searchTerm', 0)]_vars

\* A submit, a more() and a re-run have each appended: the history is the
\* initial URL, 'a' at page 0, 'a' at page 1, and the empty term again,
\* which only its last-search button can ask for.
C14_Witness ==
    urls = << getUrl(EmptyTerm, 0), getUrl(<<"a">>, 0),
              getUrl(<<"a">>, 1), getUrl(EmptyTerm, 0) >>

(***************************************************************************)
(* Claims about the fetch cycle and malformed responses (SpecResponses).   *)
(***************************************************************************)
\* C11: a fetch cycle whose request is rejected, or fulfilled with a
\* response that has no list of story records, dispatches FETCH_FAILURE and
\* not FETCH_SUCCESS: every FETCH_SUCCESS dispatched carries a list, and
\* items is never set to a value that is not a list.
C11_MalformedGivesFailure ==
    /\ IsSuccess(last) => "list" \in DOMAIN last.payload
    /\ "data" \in DOMAIN stories

(***************************************************************************)
(* Claims about the URL functions (SpecExtract).                           *)
(***************************************************************************)
\* C15: decomposition is lossless: extractSearchTerm(getUrl(term, page)) is
\* term, for every term and page, the terms that contain '?', '&' or
\* 'query=' included.
C15_ExtractLossless ==
    last.type = "extractSearchTerm" => last.term = searchTerm

\* The terms of the URLs of a history, and those of them that differ from
\* the term before.
TermsOfUrls(us) == [i \in 1..Len(us) |-> extractSearchTerm(us[i])]

Kept(ts) == {i \in 1..Len(ts) : i = 1 \/ ts[i] # ts[i - 1]}

Collapsed(ts) ==
    LET kept == Kept(ts)
    IN  [k \in 1..Cardinality(kept) |->
            ts[CHOOSE i \in kept : Cardinality({j \in kept : j <= i}) = k]]

\* C16: getLastSearches returns the terms of the URLs with adjacent equal
\* terms collapsed and non-adjacent repeats kept, restricted to the last 6
\* of the collapsed sequence and without its final term: at most 5 entries,
\* oldest first.  The terms a, a, b, b, b, c give [a, b].
C16_LastSearches ==
    /\ last.type = "getLastSearches" =>
            LET collapsed == Collapsed(TermsOfUrls(urls))
                n == Len(collapsed)
            IN  /\ last.terms = SubSeq(collapsed, Max(1, n - 5), n - 1)
                /\ Len(last.terms) <= 5
    /\ getLastSearches(<< getUrl(<<"a">>, 0), getUrl(<<"a">>, 1), getUrl(<<"b">>, 0),
                          getUrl(<<"b">>, 1), getUrl(<<"b">>, 2), getUrl(<<"c">>, 0) >>)
            = << <<"a">>, <<"b">> >>

\* A history whose collapsed terms are a, b, a, b, a, b and one more: the
\* oldest and the final one are left out, the repeats in between are kept.
C16_Witness ==
    /\ last.type = "getLastSearches"
    /\ Len(Collapsed(TermsOfUrls(urls))) >= 7
    /\ last.terms = << <<"b">>, <<"a">>, <<"b">>, <<"a">>, <<"b">> >>

(***************************************************************************)
(* Claims about the displayed order (SpecSort).                            *)
(***************************************************************************)
\* The field a key sorts by.
SortField(sortKey) ==
    CASE sortKey = "TITLE" -> "title"
      [] sortKey = "AUTHOR" -> "author"
      [] sortKey = "COMMENT" -> "num_comments"
      [] sortKey = "POINT" -> "points"

\* Where x is in a list of distinct entries.
Position(list, x) == CHOOSE i \in 1..Len(list) : list[i] = x

\* out holds the entries of in, ascending by the field, entries of equal
\* value in the order they have in in.
StableAscending(out, in, field) ==
    /\ Len(out) = Len(in)
    /\ {out[i] : i \in 1..Len(out)} = {in[i] : i \in 1..Len(in)}
    /\ \A i, j \in 1..Len(out) :
            i < j =>
                \/ out[i][field] < out[j][field]
                \/ /\ out[i][field] = out[j][field]
                   /\ Position(in, out[i]) < Position(in, out[j])

\* C18: the displayed order of a list under a key and a toggle: NONE
\* leaves the order as it is; TITLE and AUTHOR give the stable ascending
\* order of the field; COMMENT and POINT give that order reversed as a
\* whole; and a true toggle reverses the order so obtained once more.
C18_DisplayedOrder ==
    /\ sortedList = SortedList(stories.data, sort.sortKey, sort.isReverse)
    /\ \A sortKey \in SortKeys, isReverse \in BOOLEAN :
            LET shown == SortedList(stories.data, sortKey, isReverse)
                n == Len(shown)
                base == IF isReverse THEN [i \in 1..n |-> shown[n + 1 - i]] ELSE shown
            IN  CASE sortKey = "NONE" -> base = stories.data
                  [] sortKey \in {"TITLE", "AUTHOR"} ->
                        StableAscending(base, stories.data, SortField(sortKey))
                  [] sortKey \in {"COMMENT", "POINT"} ->
                        StableAscending([i \in 1..n |-> base[n + 1 - i]],
                                        stories.data, SortField(sortKey))

\* The COMMENT column clicked twice over four stories with 0, 3, 3, 0
\* comments: ascending, the ties in list order.
C18_Witness ==
    /\ sort = [sortKey |-> "COMMENT", isReverse |-> TRUE]
    /\ stories.data = <<SortStory1, SortStory2, SortStory3, SortStory4>>
    /\ sortedList = <<SortStory1, SortStory4, SortStory2, SortStory3>>

\* The entries of shown that have equal values of the field are in the
\* order they have in list.
TiesInOrderOf(shown, list, field) ==
    \A i, j \in 1..Len(shown) :
        (i < j /\ shown[i][field] = shown[j][field]) =>
            Position(list, shown[i]) < Position(list, shown[j])

\* C19: the sort is stable for every key and both toggle values: two records
\* with equal values of the active sort field are displayed in the relative
\* order they have in items.
C19_Stable ==
    sort.sortKey # "NONE" =>
        TiesInOrderOf(sortedList, stories.data, SortField(sort.sortKey))

\* C20: toggle symmetry: sorting items by POINT with the toggle false and
\* then the result by POINT with the toggle true gives a list in which the
\* records of equal points are in the relative order they have in items.
C20_ToggleSymmetry ==
    LET result == SortedList(stories.data, "POINT", FALSE)
    IN  TiesInOrderOf(SortedList(result, "POINT", TRUE), stories.data, "points")

\* C21: the sort-key state machine.  From {NONE, false}, a click on the
\* active key flips the toggle and a click on another key makes that key
\* active with the toggle false: after any sequence of clicks the active key
\* is the one clicked last, and the toggle is true exactly when that key
\* has been clicked an even number of times in its current run.
C21_ToggleParity ==
    IF last.type = "handleSort"
    THEN /\ sort.sortKey = last.sortKey
         /\ sort.isReverse <=> (last.run % 2 = 0)
    ELSE sort = [sortKey |-> "NONE", isReverse |-> FALSE]

\* Four clicks in a row on POINT.
C21_Witness ==
    /\ last.type = "handleSort"
    /\ last.run = 4
    /\ sort = [sortKey |-> "POINT", isReverse |-> TRUE]

\* C22: computing the display order never changes the store: for every
\* reachable sort key and toggle, NONE included, items has the same entries
\* in the same order after the display list is computed as before.  The
\* render of every reachable state leaves data as it is, and so does every
\* click on a column.
C22_RenderKeepsStore ==
    /\ [](DataAfterRender(stories.data, sort.sortKey, sort.isReverse) = stories.data)
    /\ [][HandleSort => stories'.data = stories.data]_vars

\* Two clicks on TITLE over four stories: the display is the reverse of the
\* title order, the store is in insertion order.
C22_Witness ==
    /\ sort = [sortKey |-> "TITLE", isReverse |-> TRUE]
    /\ stories.data = <<SortStory1, SortStory2, SortStory3, SortStory4>>
    /\ sortedList = <<SortStory4, SortStory3, SortStory2, SortStory1>>

(***************************************************************************)
(* Claims about loading and the terms of the list (Spec).                  *)
(***************************************************************************)
\* The number of the term under which the remote source holds a record.
TermOfRecord(story) == story.objectID \div 100

\* C23: items only holds records returned for a single search term: all its
\* records came from responses to URLs of the same term.
C23_SingleTerm ==
    \A i, j \in 1..Len(stories.data) :
        TermOfRecord(stories.data[i]) = TermOfRecord(stories.data[j])

\* C24: isLoading is true in every state in which a fetch is outstanding,
\* so the More button, shown only while isLoading is false, cannot be used
\* while a fetch is in flight.
C24_LoadingWhileOutstanding ==
    Outstanding # {} => stories.isLoading

\* C25: loading always ends: when every started fetch completes at some
\* time, every state with isLoading true is followed by a state with
\* isLoading false; and isLoading is false whenever no fetch is outstanding.
C25_LoadingEnds ==
    /\ stories.isLoading ~> ~stories.isLoading
    /\ [](Outstanding = {} => ~stories.isLoading)

\* Three requests have completed, the last of them the page-1 request of a
\* more(): nothing is outstanding and loading has ended.
C25_Witness ==
    /\ Len(cycles) = 3
    /\ Outstanding = {}
    /\ ~stories.isLoading
    /\ ~stories.isError
    /\ stories.page = 1

(***************************************************************************)
(* Claims about the JavaScript variant (SpecJs).                           *)
(***************************************************************************)
\* C26: every action the handlers dispatch has a type the variant's reducer
\* recognises: the reducer's throwing branch is never reached, and a click
\* on an item's remove button leaves a list without that item.
C26_ActionsRecognised ==
    /\ last.type \in { "NONE", "STORIES_FETCH_INIT", "STORIES_FETCH_SUCCESS",
                       "STORIES_FETCH_FAILURE", "REMOVE_STORY" }
    /\ stories # Thrown

====
